---- MODULE Spec2Model ----
(***************************************************************************)
(* FicTrac: the OpenCV frame source (src/src/CVSource.cpp) and the         *)
(* interactive configuration session (src/src/ConfigGUI.cpp) as state      *)
(* machines.  SpecSrc runs the frame source, SpecGui the session.          *)
(***************************************************************************)
EXTENDS Integers, Sequences, FiniteSets, TLC

VARIABLES
    \* ---- CVSource ----
    input,        \* the constructor's argument, a sequence of characters
    spc,          \* position in the constructor: "cam","vid","img","fin","ready"
    trials,       \* history: the classification trials run so far
    src_open,     \* _open
    src_live,     \* _live
    is_image,     \* _is_image
    cap,          \* _cap: what the VideoCapture pointer holds
    frame_cap,    \* _frame_cap: <<rows, cols>>, <<0, 0>> when empty
    width,        \* _width
    height,       \* _height
    grabRet,      \* outcome of the last grab(): "none","true","false","throw"
    reads,        \* history: number of backend reads made by grab()
    cap_rows,     \* history: _frame_cap.rows as line 200 of the last grab() saw it (0: not reached)
    bayer_set,    \* history: the layout the caller gave to its last setBayerType call
    ngrabs,       \* history: number of grab() calls
    fps,          \* _fps
    bayerType,    \* _bayerType
    pace_fps,     \* the _fps the pacing block of the last grab() slept for, 0 if skipped
    call,         \* the last accessor call: arguments, backend answers, result
    pacing,       \* grab()'s function statics prev_ts, av_fps, sleep_ms: one per process
    other,        \* a second CVSource of the process: its _open, _live, _fps
    ogr           \* history: number of grab() calls on the second CVSource

accVars == <<fps, bayerType, pace_fps, call, bayer_set>>
procVars == <<pacing, other, ogr>>
srcVars == <<input, spc, trials, src_open, src_live, is_image, cap, frame_cap,
             width, height, grabRet, reads, cap_rows, ngrabs, accVars, procVars>>

VARIABLES
    \* ---- ConfigGui ----
    gpc,          \* position in run(): "start","top","prompt","slct","wait","exit","done"
    gui_open,     \* _open
    vfov,         \* the configured vertical field of view
    mode,         \* _input_data.mode
    circPts,      \* _input_data.circPts
    ignrPts,      \* _input_data.ignrPts
    sqrPts,       \* _input_data.sqrPts
    newEvent,     \* _input_data.newEvent
    key,          \* run()'s key
    fit,          \* run()'s c and r: the fitted circle, ok iff r > 0
    R,            \* run()'s R
    t,            \* run()'s t
    cfg_r_src,    \* run()'s cfg_r_src
    cfg,          \* _cfg: the config store in memory
    disk,         \* the config file
    writes,       \* history: number of _cfg.write() calls
    stages,       \* history: the states changeState() entered
    clicks,       \* history: number of left clicks
    declined,     \* history: the user answered n or N at a keep/redo prompt
    file0,        \* history: the config file as the session found it
    open0,        \* history: _open as the constructor left it
    failed,       \* history: a _cfg.write() of the session has failed
    snapshot,     \* what the exit path drew into the config image
    ret,          \* how run() ended: "none","true","false","throw"
    frame_set,    \* _frame holds an image (it is not an empty cv::Mat)
    str,          \* run()'s str: the line read at the method menu
    stdin         \* the characters typed at the console and not yet read

inputVars == <<mode, circPts, ignrPts, sqrPts, newEvent>>
storeVars == <<cfg, disk, writes, failed>>
localVars == <<key, fit, R, t, cfg_r_src>>
histVars == <<stages, clicks, declined, file0, open0>>
guiVars == <<gpc, gui_open, vfov, inputVars, localVars, storeVars, histVars,
             snapshot, ret, frame_set, str, stdin>>

vars == <<srcVars, guiVars>>

-----------------------------------------------------------------------------
(* Bounds *)
MaxInputLen == 3
MaxGrabs == 3
MaxClicks == 3
MaxOtherGrabs == 2

(* Program constants *)
MaxCamIdLen == 2
ReshapeRows == 240

-----------------------------------------------------------------------------
(* Strings are sequences of one-character strings. *)
Chars == {"1", "a", " ", "-"}
Digits == {"0", "1", "2", "3", "4", "5", "6", "7", "8", "9"}
Spaces == {" "}
Signs == {"-", "+"}

RECURSIVE SeqsUpTo(_, _)
SeqsUpTo(S, n) ==
    IF n = 0 THEN {<<>>}
    ELSE LET shorter == SeqsUpTo(S, n - 1)
         IN  shorter \cup {Append(s, x) : s \in shorter, x \in S}

Inputs == SeqsUpTo(Chars, MaxInputLen)

RECURSIVE SkipSpaces(_)
SkipSpaces(s) ==
    IF s # <<>> /\ Head(s) \in Spaces THEN SkipSpaces(Tail(s)) ELSE s

SkipSign(s) == IF s # <<>> /\ Head(s) \in Signs THEN Tail(s) ELSE s

\* std::stoi: leading white space, an optional sign, then at least one digit;
\* whatever follows the digits is ignored.  No digit: std::invalid_argument.
StoiOK(s) ==
    LET d == SkipSign(SkipSpaces(s)) IN d # <<>> /\ Head(d) \in Digits

DigitOf(c) ==
    CASE c = "0" -> 0 [] c = "1" -> 1 [] c = "2" -> 2 [] c = "3" -> 3
      [] c = "4" -> 4 [] c = "5" -> 5 [] c = "6" -> 6 [] c = "7" -> 7
      [] c = "8" -> 8 [] c = "9" -> 9

RECURSIVE DigitsVal(_, _)
DigitsVal(s, acc) ==
    IF s # <<>> /\ Head(s) \in Digits
    THEN DigitsVal(Tail(s), 10 * acc + DigitOf(Head(s)))
    ELSE acc

StoiVal(s) ==
    LET body == SkipSpaces(s)
        neg == body # <<>> /\ Head(body) = "-"
        v == DigitsVal(SkipSign(body), 0)
    IN  IF neg THEN 0 - v ELSE v

\* Frame shapes a backend can deliver: <<rows, cols>>.
EmptyFrame == <<0, 0>>
FrameShapes == {<<240, 320>>, <<480, 640>>, <<1, 76800>>, <<1, 100>>}

-----------------------------------------------------------------------------
(* CVSource::CVSource *)

\* Member values the FrameSource base class gives before the constructor body
\* runs: closed, not live, no dimensions.
\* _fps starts non-positive: line 85 leaves it alone for video files so that
\* they play back as fast as possible, which the test of line 229 provides
\* only for _fps <= 0.
FrameSourceInit ==
    /\ src_open = FALSE
    /\ src_live = FALSE
    /\ width = -1
    /\ height = -1
    /\ fps = -1
    /\ bayerType = "BAYER_NONE"

\* No accessor was called yet.
NoCall == [op |-> "none", a |-> 0, b |-> 0, set1 |-> FALSE, set2 |-> FALSE,
           repA |-> 0, repB |-> 0, ok |-> FALSE, val |-> 0]

\* The state when the constructor body starts: _is_image(false) is the
\* constructor's own initialiser, _cap is a null pointer.
\* The statics before the first paced grab() of the process.
NoPacing == [init |-> FALSE, prev_ts |-> 0, terms |-> <<>>]

\* No second frame source.
NoOther == [open |-> FALSE, live |-> FALSE, fps |-> 0 - 1]

CtorStart(in) ==
    /\ input = in
    /\ spc = "cam"
    /\ trials = <<>>
    /\ FrameSourceInit
    /\ is_image = FALSE
    /\ cap = [kind |-> "null", opened |-> FALSE]
    /\ frame_cap = EmptyFrame
    /\ grabRet = "none"
    /\ reads = 0
    /\ cap_rows = 0
    /\ bayer_set = "BAYER_NONE"
    /\ ngrabs = 0
    /\ pace_fps = 0
    /\ call = NoCall
    /\ pacing = NoPacing
    /\ ogr = 0

SrcInit == (\E in \in Inputs : CtorStart(in)) /\ other = NoOther

\* A faulty variant of LiveOf: every successful trial marks the source live.
LiveAlways(kind) == TRUE

\* The _live a successful trial assigns (lines 42, 54, 64): true on the
\* camera-id path only.
LiveOf(kind) == kind = "camera"

Trial(kind, ok, sizeOk, parsed, opened, frame) ==
    [kind |-> kind, ok |-> ok, sizeOk |-> sizeOk, parsed |-> parsed,
     opened |-> opened, frame |-> frame]

\* Lines 31-43: the camera-id trial.  opened and test_frame are what the
\* backend answers for VideoCapture(id) and *_cap >> test_frame.
TryCamera ==
    /\ spc = "cam"
    /\ \E opened \in BOOLEAN, test_frame \in {EmptyFrame, <<240, 320>>} :
          LET sizeOk == ~(Len(input) > MaxCamIdLen)
              parsed == sizeOk /\ StoiOK(input)
              isOpen == parsed /\ opened
              ok == isOpen /\ test_frame # EmptyFrame
          IN  /\ cap' = IF parsed
                        THEN [kind |-> "cam", opened |-> opened]
                        ELSE cap
              /\ trials' = Append(trials,
                              Trial("camera", ok, sizeOk, parsed, isOpen,
                                    IF isOpen THEN test_frame ELSE EmptyFrame))
              /\ IF ok
                 THEN /\ src_open' = TRUE
                      /\ src_live' = LiveOf("camera")
                      /\ spc' = "fin"
                 ELSE /\ UNCHANGED <<src_open, src_live>>
                      /\ spc' = "vid"
    /\ UNCHANGED <<input, is_image, frame_cap, width, height, grabRet, reads, cap_rows, ngrabs>>
    /\ UNCHANGED accVars
    /\ UNCHANGED procVars
    /\ UNCHANGED guiVars

\* Lines 45-55: the video-file trial.
TryVideo ==
    /\ spc = "vid"
    /\ \E opened \in BOOLEAN, test_frame \in {EmptyFrame, <<240, 320>>} :
          LET ok == opened /\ test_frame # EmptyFrame
          IN  /\ cap' = [kind |-> "vid", opened |-> opened]
              /\ trials' = Append(trials,
                              Trial("video", ok, TRUE, TRUE, opened,
                                    IF opened THEN test_frame ELSE EmptyFrame))
              /\ IF ok
                 THEN /\ src_open' = TRUE
                      /\ src_live' = LiveOf("video")
                      /\ spc' = "fin"
                 ELSE /\ UNCHANGED <<src_open, src_live>>
                      /\ spc' = "img"
    /\ UNCHANGED <<input, is_image, frame_cap, width, height, grabRet, reads, cap_rows, ngrabs>>
    /\ UNCHANGED accVars
    /\ UNCHANGED procVars
    /\ UNCHANGED guiVars

\* Lines 57-70: the still-image trial.  decoded is what cv::imread returns.
TryImage ==
    /\ spc = "img"
    /\ \E decoded \in FrameShapes \cup {EmptyFrame} :
          LET ok == decoded # EmptyFrame
          IN  /\ frame_cap' = decoded
              /\ trials' = Append(trials,
                              Trial("image", ok, TRUE, TRUE, ok, decoded))
              /\ IF ok
                 THEN /\ src_open' = TRUE
                      /\ src_live' = LiveOf("image")
                      /\ is_image' = TRUE
                 ELSE /\ src_open' = FALSE
                      /\ UNCHANGED <<src_live, is_image>>
    /\ spc' = "fin"
    /\ UNCHANGED <<input, cap, width, height, grabRet, reads, cap_rows, ngrabs>>
    /\ UNCHANGED accVars
    /\ UNCHANGED procVars
    /\ UNCHANGED guiVars

\* Rates and sizes <<width, height>> a backend can report.
DevRates == {25, 30}
DevSizes == {<<320, 240>>, <<640, 480>>}

\* cv::VideoCapture::set and ::get on _cap: a capture that is not opened
\* refuses every set and reports 0; an opened one answers as the backend does.
CapSet(answer) == cap.opened /\ answer
CapGet(answer) == IF cap.opened THEN answer ELSE 0

\* A faulty variant of GetFPSOf: the stored _fps is returned.
GetFPSStored(rate) == fps

\* CVSource::getFPS, lines 105-112; rate is what the backend reports.
GetFPSOf(rate) ==
    IF src_open /\ cap.kind # "null" THEN CapGet(rate) ELSE fps

\* Lines 74-93: record the dimensions.  For a capture they are what the
\* backend reports.  A live source takes its rate from getFPS().
CtorFinish ==
    /\ spc = "fin"
    /\ IF src_open
       THEN IF is_image
            THEN /\ width' = frame_cap[2]
                 /\ height' = frame_cap[1]
            ELSE \E shape \in {<<240, 320>>, <<480, 640>>} :
                    /\ width' = shape[2]
                    /\ height' = shape[1]
       ELSE UNCHANGED <<width, height>>
    /\ IF src_open /\ src_live
       THEN \E rate \in DevRates : fps' = GetFPSOf(rate)
       ELSE UNCHANGED fps
    /\ spc' = "ready"
    /\ UNCHANGED <<input, trials, src_open, src_live, is_image, cap, frame_cap,
                   grabRet, reads, cap_rows, ngrabs, bayerType, pace_fps, call, bayer_set>>
    /\ UNCHANGED procVars
    /\ UNCHANGED guiVars

\* The classification the constructor ended in.
Classification ==
    IF ~src_open THEN "closed"
    ELSE IF is_image THEN "image"
    ELSE IF cap.kind = "cam" THEN "camera"
    ELSE "video"

-----------------------------------------------------------------------------
(* CVSource::grab *)

\* cv::Mat::reshape(cn, rows) on a single-row matrix: the element count must
\* divide by the new row count, else cv::Exception.
ReshapeOK(shape, rows) == (shape[1] * shape[2]) % rows = 0 /\ rows <= shape[1] * shape[2]
Reshape(shape, rows) == <<rows, (shape[1] * shape[2]) \div rows>>

\* ts_ms() as grab() reads it at line 192: the clock moves one tick with
\* every grab() call of the process.
Ts == ngrabs + ogr + 1

\* Lines 229-237, the pacing block on the statics.  The first execution in
\* the process initialises them from the caller's _fps (prev_ts = ts -
\* 1000/_fps, av_fps = _fps, sleep_ms = 1000/_fps); every execution then folds
\* the caller's _fps and the interval ts - prev_ts into av_fps and sleep_ms
\* and sets prev_ts = ts.  av_fps and sleep_ms are kept as the sequence of
\* (rate, interval) pairs they were computed from, the interval as a fraction
\* num/den of a millisecond.
Pace(st, rate, ts) ==
    LET s0 == IF st.init THEN st
              ELSE [init |-> TRUE, prev_ts |-> ts, terms |-> <<>>]
        dt == IF st.init
              THEN [rate |-> rate, num |-> ts - st.prev_ts, den |-> 1]
              ELSE [rate |-> rate, num |-> 1000, den |-> rate]
    IN  [s0 EXCEPT !.terms = Append(@, dt), !.prev_ts = ts]

\* Lines 205-226: the conversion grab() applies to _frame_cap, chosen by the
\* channel count and, for one channel, by _bayerType.
Demosaic(channels, type) ==
    IF channels # 1 THEN "copyTo"
    ELSE CASE type = "BAYER_BGGR" -> "COLOR_BayerBG2BGR"
           [] type = "BAYER_GBRG" -> "COLOR_BayerGB2BGR"
           [] type = "BAYER_GRBG" -> "COLOR_BayerGR2BGR"
           [] type = "BAYER_RGGB" -> "COLOR_BayerRG2BGR"
           [] OTHER -> "COLOR_GRAY2BGR"

\* Lines 186-244.  read is what _cap->read(_frame_cap) delivers: an empty
\* frame is a failed read.
Grab ==
    /\ spc = "ready"
    /\ ngrabs < MaxGrabs
    /\ ngrabs' = ngrabs + 1
    /\ IF ~src_open
       THEN /\ grabRet' = "false"
            /\ UNCHANGED <<frame_cap, reads>>
            /\ cap_rows' = 0
       ELSE IF ~is_image
       THEN \E read \in FrameShapes \cup {EmptyFrame} :
               /\ reads' = reads + 1
               /\ cap_rows' = read[1]
               /\ IF read = EmptyFrame
                  THEN /\ grabRet' = "false"
                       /\ frame_cap' = EmptyFrame
                  ELSE IF read[1] = 1
                  THEN IF ReshapeOK(read, ReshapeRows)
                       THEN /\ frame_cap' = Reshape(read, ReshapeRows)
                            /\ grabRet' = "true"
                       ELSE /\ frame_cap' = read
                            /\ grabRet' = "throw"
                  ELSE /\ frame_cap' = read
                       /\ grabRet' = "true"
       ELSE /\ UNCHANGED reads
            /\ cap_rows' = frame_cap[1]
            /\ IF frame_cap[1] = 1
               THEN IF ReshapeOK(frame_cap, ReshapeRows)
                    THEN /\ frame_cap' = Reshape(frame_cap, ReshapeRows)
                         /\ grabRet' = "true"
                    ELSE /\ UNCHANGED frame_cap
                         /\ grabRet' = "throw"
               ELSE /\ UNCHANGED frame_cap
                    /\ grabRet' = "true"
    \* lines 228-237: the pacing block, reached when grab() gets to its end
    /\ pace_fps' = IF grabRet' = "true" /\ ~src_live /\ fps > 0 THEN fps ELSE 0
    /\ pacing' = IF grabRet' = "true" /\ ~src_live /\ fps > 0
                 THEN Pace(pacing, fps, Ts)
                 ELSE pacing
    /\ UNCHANGED <<input, spc, trials, src_open, src_live, is_image, cap, width, height>>
    /\ UNCHANGED <<fps, bayerType, call, bayer_set, other, ogr>>
    /\ UNCHANGED guiVars

-----------------------------------------------------------------------------
(* CVSource: the accessors *)

\* Second frame sources a process can hold: a video file played at 25 fps,
\* and a camera.
OtherSources == {[open |-> TRUE, live |-> FALSE, fps |-> 25],
                 [open |-> TRUE, live |-> TRUE, fps |-> 30]}

\* CVSource::grab, lines 186-244, on the second frame source; outcome is how
\* the call ends.  Of what it does only the pacing block reaches state that
\* the first frame source shares.
GrabOther ==
    /\ spc = "ready"
    /\ ogr < MaxOtherGrabs
    /\ ogr' = ogr + 1
    /\ \E outcome \in {"true", "false", "throw"} :
          pacing' = IF other.open /\ outcome = "true" /\ ~other.live /\ other.fps > 0
                    THEN Pace(pacing, other.fps, Ts)
                    ELSE pacing
    /\ UNCHANGED <<input, spc, trials, src_open, src_live, is_image, cap, frame_cap,
                   width, height, grabRet, reads, cap_rows, ngrabs, accVars, other>>
    /\ UNCHANGED guiVars

\* Arguments the callers pass.
WHArgs == {<<320, 240>>, <<640, 480>>, <<0, 240>>, <<320, -1>>}
FpsArgs == {0, 40}

\* What the accessors leave alone.
AccessorFrame ==
    /\ spc = "ready"
    /\ UNCHANGED <<input, spc, trials, src_open, src_live, is_image, cap, frame_cap,
                   grabRet, reads, cap_rows, ngrabs, pace_fps, bayer_set, procVars>>

\* Layouts a caller gives to setBayerType.
BayerArgs == {"BAYER_NONE", "BAYER_RGGB"}

\* FrameSource::setBayerType, the setter of _bayerType that line 146 calls.
SetBayerType ==
    /\ spc = "ready"
    /\ \E type \in BayerArgs :
          /\ bayerType' = type
          /\ bayer_set' = type
    /\ call' = [NoCall EXCEPT !.op = "setBayerType"]
    /\ UNCHANGED <<input, spc, trials, src_open, src_live, is_image, cap, frame_cap,
                   grabRet, reads, cap_rows, ngrabs, pace_fps, procVars>>
    /\ UNCHANGED <<width, height, fps>>
    /\ UNCHANGED guiVars

\* CVSource::getFPS, lines 105-112, called from outside.
GetFPS ==
    /\ AccessorFrame
    /\ \E rate \in DevRates :
          call' = [NoCall EXCEPT !.op = "getFPS",
                                 !.repA = IF src_open /\ cap.kind # "null"
                                          THEN CapGet(rate) ELSE 0,
                                 !.val = GetFPSOf(rate)]
    /\ UNCHANGED <<width, height, fps, bayerType>>
    /\ UNCHANGED guiVars

\* CVSource::setFPS, lines 117-132.  accepted is the backend's answer to the
\* set, rate what it reports afterwards.  ret is never assigned true.
SetFPS ==
    /\ AccessorFrame
    /\ \E f \in FpsArgs :
          IF src_open /\ cap.kind # "null" /\ f > 0
          THEN \E accepted \in BOOLEAN :
                  IF ~CapSet(accepted)
                  THEN /\ fps' = f
                       /\ call' = [NoCall EXCEPT !.op = "setFPS", !.a = f]
                  ELSE \E rate \in DevRates :
                          /\ fps' = GetFPSOf(rate)
                          /\ call' = [NoCall EXCEPT !.op = "setFPS", !.a = f,
                                                     !.set1 = TRUE,
                                                     !.repA = CapGet(rate)]
          ELSE /\ fps' = fps
               /\ call' = [NoCall EXCEPT !.op = "setFPS", !.a = f]
    /\ UNCHANGED <<width, height, bayerType>>
    /\ UNCHANGED guiVars

\* A faulty variant of SameWH: what the backend reports is not compared.
AnyWH(w, h, rw, rh) == TRUE

\* The test of line 161: the recorded dimensions are the requested ones.
SameWH(w, h, rw, rh) == rw = w /\ rh = h

\* A faulty variant of SetWH: a refused size is not recorded.
SetWHKeepsSize ==
    /\ AccessorFrame
    /\ \E wh \in WHArgs :
          IF src_open /\ cap.kind # "null" /\ wh[1] > 0 /\ wh[2] > 0
          THEN /\ bayerType' = "BAYER_GRBG"
               /\ \E width_set, height_set \in BOOLEAN :
                     IF ~(CapSet(width_set) /\ CapSet(height_set))
                     THEN /\ UNCHANGED <<width, height>>
                          /\ call' = [NoCall EXCEPT !.op = "setWH",
                                                     !.a = wh[1], !.b = wh[2],
                                                     !.set1 = CapSet(width_set),
                                                     !.set2 = CapSet(height_set)]
                     ELSE \E size \in DevSizes :
                             /\ width' = CapGet(size[1])
                             /\ height' = CapGet(size[2])
                             /\ call' = [NoCall EXCEPT !.op = "setWH",
                                                        !.a = wh[1], !.b = wh[2],
                                                        !.set1 = TRUE, !.set2 = TRUE,
                                                        !.repA = CapGet(size[1]),
                                                        !.repB = CapGet(size[2]),
                                                        !.ok = SameWH(wh[1], wh[2], width', height')]
          ELSE /\ UNCHANGED <<width, height, bayerType>>
               /\ call' = [NoCall EXCEPT !.op = "setWH", !.a = wh[1], !.b = wh[2]]
    /\ UNCHANGED fps
    /\ UNCHANGED guiVars

\* CVSource::setWH, lines 137-166.  width_set and height_set are the
\* backend's answers to the two sets, size what it reports afterwards.
SetWH ==
    /\ AccessorFrame
    /\ \E wh \in WHArgs :
          IF src_open /\ cap.kind # "null" /\ wh[1] > 0 /\ wh[2] > 0
          THEN /\ bayerType' = "BAYER_GRBG"
               /\ \E width_set, height_set \in BOOLEAN :
                     IF ~(CapSet(width_set) /\ CapSet(height_set))
                     THEN /\ width' = wh[1]
                          /\ height' = wh[2]
                          /\ call' = [NoCall EXCEPT !.op = "setWH",
                                                     !.a = wh[1], !.b = wh[2],
                                                     !.set1 = CapSet(width_set),
                                                     !.set2 = CapSet(height_set)]
                     ELSE \E size \in DevSizes :
                             /\ width' = CapGet(size[1])
                             /\ height' = CapGet(size[2])
                             /\ call' = [NoCall EXCEPT !.op = "setWH",
                                                        !.a = wh[1], !.b = wh[2],
                                                        !.set1 = TRUE, !.set2 = TRUE,
                                                        !.repA = CapGet(size[1]),
                                                        !.repB = CapGet(size[2]),
                                                        !.ok = SameWH(wh[1], wh[2], width', height')]
          ELSE /\ UNCHANGED <<width, height, bayerType>>
               /\ call' = [NoCall EXCEPT !.op = "setWH", !.a = wh[1], !.b = wh[2]]
    /\ UNCHANGED fps
    /\ UNCHANGED guiVars

\* The value rewind() returns inside its if, lines 176-178.
RewindRet(seek_set) == seek_set

\* CVSource::rewind, lines 172-181.  seek_set is the backend's answer to
\* set(CAP_PROP_POS_FRAMES, 0).
Rewind ==
    /\ AccessorFrame
    /\ \E seek_set \in BOOLEAN :
          call' = [NoCall EXCEPT !.op = "rewind",
                                 !.set1 = src_open /\ cap.kind # "null" /\ CapSet(seek_set),
                                 !.ok = src_open /\ cap.kind # "null"
                                         /\ RewindRet(CapSet(seek_set))]
    /\ UNCHANGED <<width, height, fps, bayerType>>
    /\ UNCHANGED guiVars

-----------------------------------------------------------------------------
(* ConfigGui: values *)

Stages == {"CIRC_INIT", "CIRC_PTS", "IGNR_INIT", "IGNR_PTS", "R_INIT", "R_SLCT",
           "R_XY", "R_YZ", "R_XZ", "R_EXT", "EXIT"}
PtsStages == {"CIRC_PTS", "IGNR_PTS", "R_XY", "R_YZ", "R_XZ"}
SqrStages == {"R_XY", "R_YZ", "R_XZ"}

\* Points the mouse callback can deliver (x, y are ints, no range check).
ClickPts == {<<10, 10>>, <<-3, 40>>}

\* Keys cv::waitKey(5) can return: none is the time-out; f is read in the
\* square stages only, where it mirrors the axis.
Keys(m) ==
    IF m \in SqrStages THEN {"none", "enter", "esc", "f"}
    ELSE {"none", "enter", "esc"}

\* Characters getchar() can deliver at a keep/redo prompt.
Answers == {"y", "Y", "\n", "n", "N", "x"}

\* Lines std::getline can deliver at the method menu.
MenuLines == {<<>>, <<"1">>, <<"2">>, <<"3">>, <<"4">>, <<"5">>, <<"x">>,
              <<"1", "a">>, <<" ", "5">>}

\* A store value: <<>> when the key is absent, <<v>> when it holds v.
Absent == <<>>
Val(v) == <<v>>
\* An empty cv::Mat.
Empty == [src |-> "empty", plane |-> "none", pts |-> <<>>, flip |-> FALSE]
EmptyT == [src |-> "empty", plane |-> "none", pts |-> <<>>]
CfgKeys == {"roi_circ", "roi_ignr", "c2a_src", "c2a_cnrs_xy", "c2a_cnrs_yz",
            "c2a_cnrs_xz", "c2a_r", "c2a_t"}
EmptyCfg == [k \in CfgKeys |-> Absent]

\* ConfigParser: a key is readable when it is in the store.
CfgHas(c, k) == k \in DOMAIN c /\ c[k] # Absent
CfgGet(c, k) == c[k][1]
\* A faulty variant of CfgAdd: the store is left with the added key alone.
CfgAddAlone(c, k, v) == [x \in DOMAIN c |-> IF x = k THEN Val(v) ELSE Absent]
CfgAdd(c, k, v) == [c EXCEPT ![k] = Val(v)]

\* static_cast<int>(v + 0.5) for a double v holding an integer: v + 0.5 is
\* (2v + 1) / 2, and the cast truncates toward zero.
ToInt(v) ==
    LET h == 2 * v + 1
    IN  IF h >= 0 THEN h \div 2 ELSE 0 - ((0 - h) \div 2)

\* for (auto p : pts) { push_back(int(p.x + 0.5)); push_back(int(p.y + 0.5)); }
RECURSIVE DumpPts(_)
DumpPts(pts) ==
    IF pts = <<>> THEN <<>>
    ELSE <<ToInt(Head(pts)[1]), ToInt(Head(pts)[2])>> \o DumpPts(Tail(pts))

\* for (i = 1; i < v.size(); i += 2) push_back(Point2d(v[i-1], v[i]));
LoadPts(v) == [i \in 1..(Len(v) \div 2) |-> <<v[2 * i - 1], v[2 * i]>>]

DumpPolys(polys) == [i \in 1..Len(polys) |-> DumpPts(polys[i])]

\* IGNR_INIT keeps only the polygons that load at least one point.
RECURSIVE LoadPolys(_)
LoadPolys(v) ==
    IF v = <<>> THEN <<>>
    ELSE LET tmp == LoadPts(Head(v))
         IN  (IF tmp # <<>> THEN <<tmp>> ELSE <<>>) \o LoadPolys(Tail(v))

\* circleFit_camModel: the result is a function of the point list alone, and
\* has a positive radius unless all the points are the same one.
NonDegenerate(pts) == \E i, j \in DOMAIN pts : pts[i] # pts[j]
NoFit == [ok |-> FALSE, pts |-> <<>>]
CircleFit(pts) == [ok |-> NonDegenerate(pts), pts |-> pts]

\* computeRtFromSquare: the pose of the clicked corners against the plane's
\* reference corners, minimised from the incoming R as the first guess (the
\* mirror solution it lands in is the guess's).
Solved(plane, pts, guess) ==
    [src |-> "solve", plane |-> plane, pts |-> pts,
     flip |-> IF guess = Empty THEN FALSE ELSE guess.flip]
SolvedT(plane, pts) == [src |-> "solve", plane |-> plane, pts |-> pts]
\* CmPoint64f::omegaToMatrix / matrixToOmega: a matrix and its axis-angle
\* vector.
OmegaToMatrix(w) == w.omega
MatrixToOmega(m) == [omega |-> m]
\* A transform a config file holds, and the zero vector R_EXT adds.
FileR == [src |-> "file", plane |-> "none", pts |-> <<>>, flip |-> FALSE]
FileT == [src |-> "file", plane |-> "none", pts |-> <<>>]
ZeroVec == [omega |-> [src |-> "zero", plane |-> "none", pts |-> <<>>, flip |-> FALSE]]

\* Config files a session can start from.
StoredCirc == Val(<<10, 10, 50, 10, 30, 40>>)
StoredIgnr == Val(<<<<10, 10, 50, 10, 30, 40>>>>)
StoredCnrs == <<10, 10, 50, 10, 50, 40, 10, 40>>
NoC2a == [c2a_src |-> Absent, cnrs |-> Absent, c2a_r |-> Absent, c2a_t |-> Absent]
StoredC2a ==
    { [c2a_src |-> Val("c2a_cnrs_xy"), cnrs |-> Val(StoredCnrs),
       c2a_r |-> Val(MatrixToOmega(FileR)), c2a_t |-> Val(FileT)],
      [c2a_src |-> Val("c2a_cnrs_xy"), cnrs |-> Val(StoredCnrs),
       c2a_r |-> Absent, c2a_t |-> Val(FileT)],
      [c2a_src |-> Val("c2a_cnrs_xy"), cnrs |-> Val(StoredCnrs),
       c2a_r |-> Val(MatrixToOmega(FileR)), c2a_t |-> Absent],
      [c2a_src |-> Val("ext"), cnrs |-> Val(StoredCnrs),
       c2a_r |-> Val(MatrixToOmega(FileR)), c2a_t |-> Val(FileT)] }

StoredCfg(circ, ignr, c2a) ==
    [k \in CfgKeys |->
        CASE k = "roi_circ" -> circ
          [] k = "roi_ignr" -> ignr
          [] k = "c2a_src" -> c2a.c2a_src
          [] k = "c2a_cnrs_xy" -> c2a.cnrs
          [] k = "c2a_r" -> c2a.c2a_r
          [] k = "c2a_t" -> c2a.c2a_t
          [] OTHER -> Absent]

\* The files a session can find: each stage commits its own keys, so a file
\* holds the keys of the stages completed so far.
StoredCfgs ==
    {EmptyCfg, StoredCfg(StoredCirc, Absent, NoC2a), StoredCfg(StoredCirc, StoredIgnr, NoC2a)}
    \cup {StoredCfg(StoredCirc, StoredIgnr, c2a) : c2a \in StoredC2a}

-----------------------------------------------------------------------------
(* ConfigGui::ConfigGui and ConfigGui::setFrame *)

\* A faulty variant of SetFrame: vfov is not looked at.
AcceptAnyVfov(channels, v) == channels \in {1, 3}

\* setFrame: the frame has 1 or 3 channels and vfov > 0.
SetFrame(channels, v) == channels \in {1, 3} /\ v > 0

\* The constructor's _open: the config file was read, src_fn is there, a
\* frame was loaded, and setFrame accepted it.
CtorOpen(readOk, srcFnOk, frameOk, channels, v) ==
    readOk /\ srcFnOk /\ frameOk /\ SetFrame(channels, v)

\* _frame after the constructor: setFrame is reached only with a loaded
\* frame, and assigns _frame only for 3 or 1 channels (lines 226-229), before
\* it looks at vfov.  In every other case _frame stays the empty cv::Mat.
FrameSet(readOk, srcFnOk, frameOk, channels) ==
    readOk /\ srcFnOk /\ frameOk /\ channels \in {1, 3}

NoSnapshot == [circle |-> FALSE, regions |-> <<>>, axes |-> "none", status |-> "none"]

GuiInit ==
    /\ gpc = "start"
    /\ vfov \in {0, 45}
    /\ \E readOk, srcFnOk, frameOk \in BOOLEAN, channels \in {1, 3, 4} :
          /\ gui_open = CtorOpen(readOk, srcFnOk, frameOk, channels, vfov)
          /\ frame_set = FrameSet(readOk, srcFnOk, frameOk, channels)
          /\ \E file \in StoredCfgs : cfg = IF readOk THEN file ELSE EmptyCfg
    /\ disk = cfg
    /\ mode = "CIRC_INIT"
    /\ circPts = <<>>
    /\ ignrPts = <<>>
    /\ sqrPts = <<>>
    /\ newEvent = FALSE
    /\ key = "none"
    /\ fit = NoFit
    /\ R = Empty
    /\ t = EmptyT
    /\ cfg_r_src = ""
    /\ writes = 0
    /\ stages = <<>>
    /\ clicks = 0
    /\ declined = FALSE
    /\ file0 = disk
    /\ open0 = gui_open
    /\ failed = FALSE
    /\ snapshot = NoSnapshot
    /\ ret = "none"
    /\ str = <<>>
    /\ stdin = <<>>

-----------------------------------------------------------------------------
(* onMouseEvent *)

\* CV_EVENT_LBUTTONUP, lines 56-82.
LeftClickEffect(p) ==
    CASE mode = "CIRC_PTS" ->
            /\ circPts' = Append(circPts, p)
            /\ newEvent' = TRUE
            /\ UNCHANGED <<ignrPts, sqrPts>>
      [] mode = "IGNR_PTS" ->
            /\ ignrPts' = LET polys == IF ignrPts = <<>> THEN <<<<>>>> ELSE ignrPts
                          IN  [polys EXCEPT ![Len(polys)] = Append(@, p)]
            /\ newEvent' = TRUE
            /\ UNCHANGED <<circPts, sqrPts>>
      [] mode \in SqrStages ->
            /\ sqrPts' = Append(sqrPts, p)
            /\ newEvent' = TRUE
            /\ UNCHANGED <<circPts, ignrPts>>
      [] OTHER -> UNCHANGED <<circPts, ignrPts, sqrPts, newEvent>>

\* A faulty variant of PopBack: the last two elements go.
PopTwo(s) == SubSeq(s, 1, Len(s) - 2)

\* A faulty variant of PopBack: the first element goes, not the last.
DropFirst(s) == SubSeq(s, 2, Len(s))

\* CV_EVENT_RBUTTONUP, lines 84-112.  std::vector::pop_back.
PopBack(s) == SubSeq(s, 1, Len(s) - 1)

RightClickEffect ==
    CASE mode = "CIRC_PTS" ->
            /\ circPts' = IF Len(circPts) > 0 THEN PopBack(circPts) ELSE circPts
            /\ newEvent' = TRUE
            /\ UNCHANGED <<ignrPts, sqrPts>>
      [] mode = "IGNR_PTS" ->
            /\ ignrPts' = IF ignrPts # <<>>
                          THEN IF ignrPts[Len(ignrPts)] = <<>>
                               THEN PopBack(ignrPts)
                               ELSE [ignrPts EXCEPT ![Len(ignrPts)] = PopBack(@)]
                          ELSE ignrPts
            /\ newEvent' = TRUE
            /\ UNCHANGED <<circPts, sqrPts>>
      [] mode \in SqrStages ->
            /\ sqrPts' = IF Len(sqrPts) > 0 THEN PopBack(sqrPts) ELSE sqrPts
            /\ newEvent' = TRUE
            /\ UNCHANGED <<circPts, ignrPts>>
      [] OTHER -> UNCHANGED <<circPts, ignrPts, sqrPts, newEvent>>

\* The callback runs while cv::waitKey(5) pumps the window's events.
LeftClick ==
    /\ gpc = "wait"
    /\ clicks < MaxClicks
    /\ \E p \in ClickPts : LeftClickEffect(p)
    /\ clicks' = clicks + 1
    /\ UNCHANGED <<gpc, gui_open, vfov, mode, localVars, storeVars, stages,
                   declined, file0, open0, snapshot, ret>>
    /\ UNCHANGED <<frame_set, str, stdin>>
    /\ UNCHANGED srcVars

RightClick ==
    /\ gpc = "wait"
    /\ RightClickEffect
    /\ UNCHANGED <<gpc, gui_open, vfov, mode, localVars, storeVars, histVars,
                   snapshot, ret>>
    /\ UNCHANGED <<frame_set, str, stdin>>
    /\ UNCHANGED srcVars

-----------------------------------------------------------------------------
(* ConfigGui::run *)

\* ConfigGui::changeState, lines 364-369.
ChangeState(new_state) ==
    /\ newEvent' = TRUE
    /\ mode' = new_state
    /\ stages' = Append(stages, new_state)

\* A faulty variant of LoopGuard: the key is not looked at.
GuardOpenOnly == gui_open

\* A faulty variant of LoopGuard: _open is not looked at.
GuardKeyOnly == key # "esc"

\* The loop guard of line 400.
LoopGuard == gui_open /\ key # "esc"

\* Lines 376-399: the locals and the first changeState.
RunBegin ==
    /\ gpc = "start"
    /\ gpc' = "top"
    /\ ChangeState("CIRC_INIT")
    /\ key' = "none"
    /\ fit' = NoFit
    /\ R' = Empty
    /\ t' = EmptyT
    /\ cfg_r_src' = ""
    /\ UNCHANGED <<gui_open, vfov, circPts, ignrPts, sqrPts, storeVars, clicks,
                   file0, open0, declined, snapshot, ret>>
    /\ UNCHANGED <<frame_set, str, stdin>>
    /\ UNCHANGED srcVars

\* A faulty variant of CfgWrite: a failed write leaves _open as it is.
CfgWriteKeepsOpen(ok) ==
    /\ writes' = writes + 1
    /\ failed' = (failed \/ ~ok)
    /\ disk' = IF ok THEN cfg' ELSE disk
    /\ gui_open' = gui_open

\* _cfg.write(): the file takes the store's content, or the write fails and
\* the file stays as it was.
CfgWrite(ok) ==
    /\ writes' = writes + 1
    /\ failed' = (failed \/ ~ok)
    /\ disk' = IF ok THEN cfg' ELSE disk
    /\ gui_open' = IF ok THEN gui_open ELSE FALSE

\* The user types one line at a keep/redo prompt: one character of Answers
\* and Enter, or Enter alone.  The prompt's getchar() (lines 439, 573, 736)
\* waits for it.
ConsoleLine ==
    /\ gpc = "prompt" /\ stdin = <<>>
    /\ \E in \in Answers : stdin' = IF in = "\n" THEN <<"\n">> ELSE <<in, "\n">>
    /\ UNCHANGED <<gpc, gui_open, vfov, inputVars, localVars, storeVars, histVars,
                   snapshot, ret, frame_set, str>>
    /\ UNCHANGED srcVars

\* n calls of getchar() take the first n characters off the console.
Discard(in, n) == SubSeq(in, n + 1, Len(in))

\* A faulty variant of PromptNext: the Enter after y or Y is left on the
\* console.
PromptNoDiscard(in, keep_state) ==
    CASE in \in {"y", "Y", "\n"} -> [to |-> keep_state, n |-> 1]
      [] in \in {"n", "N"} -> [to |-> "redo", n |-> 2]
      [] OTHER -> [to |-> "retry", n |-> 2]

\* What a keep/redo prompt does with one answer: the state to go to ("retry"
\* repeats the prompt, "redo" leaves the state as it is) and the number of
\* getchar() calls made.
PromptNext(in, keep_state) ==
    CASE in \in {"y", "Y"} -> [to |-> keep_state, n |-> 2]
      [] in = "\n" -> [to |-> keep_state, n |-> 1]
      [] in \in {"n", "N"} -> [to |-> "redo", n |-> 2]
      [] OTHER -> [to |-> "retry", n |-> 2]

\* case CIRC_INIT, lines 409-434 and 465-470: load the stored points; with a
\* circle fitted through at least 3 of them, go on to the prompt.
CircInit ==
    /\ gpc = "top" /\ LoopGuard /\ mode = "CIRC_INIT"
    /\ LET has == CfgHas(cfg, "roi_circ")
           loaded == IF has THEN LoadPts(CfgGet(cfg, "roi_circ")) ELSE circPts
           fitted == has /\ Len(loaded) >= 3
           newfit == IF fitted THEN CircleFit(loaded) ELSE fit
       IN  /\ fit' = newfit
           /\ IF fitted /\ newfit.ok
              THEN /\ circPts' = loaded
                   /\ gpc' = "prompt"
                   /\ UNCHANGED <<mode, newEvent, stages>>
              ELSE /\ circPts' = <<>>
                   /\ ChangeState("CIRC_PTS")
                   /\ gpc' = "top"
    /\ UNCHANGED <<gui_open, vfov, ignrPts, sqrPts, key, R, t, cfg_r_src, storeVars,
                   clicks, file0, open0, declined, snapshot, ret>>
    /\ UNCHANGED <<frame_set, str, stdin>>
    /\ UNCHANGED srcVars

\* case CIRC_INIT, lines 436-470: one answer at the prompt.
CircPrompt ==
    /\ gpc = "prompt" /\ mode = "CIRC_INIT" /\ stdin # <<>>
    /\ \E in \in {Head(stdin)} :
          LET nx == PromptNext(in, "IGNR_INIT")
          IN  /\ declined' = (declined \/ nx.to = "redo")
              /\ stdin' = Discard(stdin, nx.n)
              /\ CASE nx.to = "retry" ->
                        UNCHANGED <<gpc, mode, newEvent, stages, circPts>>
                   [] nx.to = "redo" ->
                        /\ circPts' = <<>>
                        /\ ChangeState("CIRC_PTS")
                        /\ gpc' = "top"
                   [] OTHER ->
                        /\ ChangeState(nx.to)
                        /\ gpc' = "top"
                        /\ UNCHANGED circPts
    /\ UNCHANGED <<gui_open, vfov, ignrPts, sqrPts, localVars, storeVars, clicks,
                   file0, open0, snapshot, ret>>
    /\ UNCHANGED <<frame_set, str>>
    /\ UNCHANGED srcVars

\* A faulty variant of CircPtsDraw: with fewer than 3 points the last circle
\* is kept.
CircPtsDrawKeepsFit ==
    /\ gpc = "top" /\ LoopGuard /\ mode = "CIRC_PTS"
    /\ IF newEvent
       THEN /\ fit' = IF Len(circPts) >= 3 THEN CircleFit(circPts) ELSE fit
            /\ newEvent' = FALSE
       ELSE UNCHANGED <<fit, newEvent>>
    /\ gpc' = "wait"
    /\ UNCHANGED <<gui_open, vfov, mode, circPts, ignrPts, sqrPts, key, R, t,
                   cfg_r_src, storeVars, histVars, snapshot, ret>>
    /\ UNCHANGED <<frame_set, str, stdin>>
    /\ UNCHANGED srcVars

\* case CIRC_PTS, lines 473-501: re-fit on a new event, draw, enter waitKey.
CircPtsDraw ==
    /\ gpc = "top" /\ LoopGuard /\ mode = "CIRC_PTS"
    /\ IF newEvent
       THEN /\ fit' = IF Len(circPts) >= 3 THEN CircleFit(circPts) ELSE NoFit
            /\ newEvent' = FALSE
       ELSE UNCHANGED <<fit, newEvent>>
    /\ gpc' = "wait"
    /\ UNCHANGED <<gui_open, vfov, mode, circPts, ignrPts, sqrPts, key, R, t,
                   cfg_r_src, storeVars, histVars, snapshot, ret>>
    /\ UNCHANGED <<frame_set, str, stdin>>
    /\ UNCHANGED srcVars

\* case CIRC_PTS, lines 502-534: waitKey returns k; the state machine logic.
CircPtsKey ==
    /\ gpc = "wait" /\ mode = "CIRC_PTS"
    /\ gpc' = "top"
    /\ \E k \in Keys(mode) :
          /\ key' = k
          /\ IF k = "enter" /\ Len(circPts) >= 3
             THEN /\ cfg' = CfgAdd(cfg, "roi_circ", DumpPts(circPts))
                  /\ \E ok \in BOOLEAN : CfgWrite(ok)
                  /\ ChangeState("IGNR_INIT")
             ELSE UNCHANGED <<gui_open, mode, newEvent, stages, storeVars>>
    /\ UNCHANGED <<vfov, circPts, ignrPts, sqrPts, fit, R, t, cfg_r_src, clicks,
                   file0, open0, declined, snapshot, ret>>
    /\ UNCHANGED <<frame_set, str, stdin>>
    /\ UNCHANGED srcVars

\* case IGNR_INIT, lines 537-568 and 597-602.
IgnrInit ==
    /\ gpc = "top" /\ LoopGuard /\ mode = "IGNR_INIT"
    /\ IF CfgHas(cfg, "roi_ignr")
       THEN /\ ignrPts' = LoadPolys(CfgGet(cfg, "roi_ignr"))
            /\ gpc' = "prompt"
            /\ UNCHANGED <<mode, newEvent, stages>>
       ELSE /\ ignrPts' = <<>>
            /\ ChangeState("IGNR_PTS")
            /\ gpc' = "top"
    /\ UNCHANGED <<gui_open, vfov, circPts, sqrPts, localVars, storeVars, clicks,
                   file0, open0, declined, snapshot, ret>>
    /\ UNCHANGED <<frame_set, str, stdin>>
    /\ UNCHANGED srcVars

\* case IGNR_INIT, lines 570-602: one answer at the prompt.
IgnrPrompt ==
    /\ gpc = "prompt" /\ mode = "IGNR_INIT" /\ stdin # <<>>
    /\ \E in \in {Head(stdin)} :
          LET nx == PromptNext(in, "R_INIT")
          IN  /\ declined' = (declined \/ nx.to = "redo")
              /\ stdin' = Discard(stdin, nx.n)
              /\ CASE nx.to = "retry" ->
                        UNCHANGED <<gpc, mode, newEvent, stages, ignrPts>>
                   [] nx.to = "redo" ->
                        /\ ignrPts' = <<>>
                        /\ ChangeState("IGNR_PTS")
                        /\ gpc' = "top"
                   [] OTHER ->
                        /\ ChangeState(nx.to)
                        /\ gpc' = "top"
                        /\ UNCHANGED ignrPts
    /\ UNCHANGED <<gui_open, vfov, circPts, sqrPts, localVars, storeVars, clicks,
                   file0, open0, snapshot, ret>>
    /\ UNCHANGED <<frame_set, str>>
    /\ UNCHANGED srcVars

\* case IGNR_PTS, lines 605-627: draw, enter waitKey.
IgnrPtsDraw ==
    /\ gpc = "top" /\ LoopGuard /\ mode = "IGNR_PTS"
    /\ gpc' = "wait"
    /\ UNCHANGED <<gui_open, vfov, inputVars, localVars, storeVars, histVars,
                   snapshot, ret>>
    /\ UNCHANGED <<frame_set, str, stdin>>
    /\ UNCHANGED srcVars

\* INPUT_DATA::addPoly: start a new, empty polygon.
AddPoly(polys) == Append(polys, <<>>)

\* Faulty variants of ActiveEmpty: Enter always finishes; Enter never does.
AlwaysFinished(polys) == TRUE
NeverFinished(polys) == FALSE

\* A faulty variant of ActiveEmpty: the active polygon is not looked at.
NoPolygon(polys) == polys = <<>>

\* Line 633: there is no polygon, or the active (last) one has no point.
ActiveEmpty(polys) == polys = <<>> \/ polys[Len(polys)] = <<>>

\* case IGNR_PTS, lines 628-669.
IgnrPtsKey ==
    /\ gpc = "wait" /\ mode = "IGNR_PTS"
    /\ gpc' = "top"
    /\ \E k \in Keys(mode) :
          /\ key' = k
          /\ IF k = "enter"
             THEN IF ActiveEmpty(ignrPts)
                  THEN /\ ignrPts' = IF ignrPts # <<>> THEN PopBack(ignrPts) ELSE ignrPts
                       /\ cfg' = CfgAdd(cfg, "roi_ignr", DumpPolys(ignrPts'))
                       /\ \E ok \in BOOLEAN : CfgWrite(ok)
                       /\ ChangeState("R_INIT")
                  ELSE /\ ignrPts' = AddPoly(ignrPts)
                       /\ UNCHANGED <<gui_open, mode, newEvent, stages, storeVars>>
             ELSE UNCHANGED <<gui_open, mode, newEvent, stages, storeVars, ignrPts>>
    /\ UNCHANGED <<vfov, circPts, sqrPts, fit, R, t, cfg_r_src, clicks,
                   file0, open0, declined, snapshot, ret>>
    /\ UNCHANGED <<frame_set, str, stdin>>
    /\ UNCHANGED srcVars

\* A faulty variant of RInit: the prompt is shown whatever the store holds.
RInitPromptAlways ==
    /\ gpc = "top" /\ LoopGuard /\ mode = "R_INIT"
    /\ gpc' = "prompt"
    /\ UNCHANGED <<gui_open, vfov, inputVars, localVars, storeVars, histVars,
                   snapshot, ret, frame_set, str, stdin>>
    /\ UNCHANGED srcVars

\* case R_INIT, lines 672-730 and 760-763: load the stored corners and
\* transform; any missing piece sends the session to the method menu.
RInit ==
    /\ gpc = "top" /\ LoopGuard /\ mode = "R_INIT"
    /\ IF CfgHas(cfg, "c2a_src")
       THEN LET src == CfgGet(cfg, "c2a_src")
            IN  /\ cfg_r_src' = src
                /\ IF ~CfgHas(cfg, src)
                   THEN /\ ChangeState("R_SLCT")
                        /\ gpc' = "top"
                        /\ UNCHANGED <<sqrPts, R, t>>
                   ELSE /\ sqrPts' = LoadPts(CfgGet(cfg, src))
                        /\ IF ~CfgHas(cfg, "c2a_r")
                           THEN /\ ChangeState("R_SLCT")
                                /\ gpc' = "top"
                                /\ UNCHANGED <<R, t>>
                           ELSE /\ R' = OmegaToMatrix(CfgGet(cfg, "c2a_r"))
                                /\ IF ~CfgHas(cfg, "c2a_t")
                                   THEN /\ ChangeState("R_SLCT")
                                        /\ gpc' = "top"
                                        /\ UNCHANGED t
                                   ELSE /\ t' = CfgGet(cfg, "c2a_t")
                                        /\ gpc' = "prompt"
                                        /\ UNCHANGED <<mode, newEvent, stages>>
       ELSE /\ ChangeState("R_SLCT")
            /\ gpc' = "top"
            /\ UNCHANGED <<sqrPts, R, t, cfg_r_src>>
    /\ UNCHANGED <<gui_open, vfov, circPts, ignrPts, key, fit, storeVars, clicks,
                   file0, open0, declined, snapshot, ret>>
    /\ UNCHANGED <<frame_set, str, stdin>>
    /\ UNCHANGED srcVars

\* A faulty variant of RPrompt: a declined transform clears the corners, as
\* the two earlier prompts clear their points.
RPromptClears ==
    /\ gpc = "prompt" /\ mode = "R_INIT" /\ stdin # <<>>
    /\ \E in \in {Head(stdin)} :
          LET nx == PromptNext(in, "EXIT")
          IN  /\ declined' = (declined \/ nx.to = "redo")
              /\ stdin' = Discard(stdin, nx.n)
              /\ CASE nx.to = "retry" ->
                        UNCHANGED <<gpc, mode, newEvent, stages, sqrPts>>
                   [] nx.to = "redo" ->
                        /\ sqrPts' = <<>>
                        /\ ChangeState("R_SLCT")
                        /\ gpc' = "top"
                   [] OTHER ->
                        /\ ChangeState(nx.to)
                        /\ gpc' = "top"
                        /\ UNCHANGED sqrPts
    /\ UNCHANGED <<gui_open, vfov, circPts, ignrPts, localVars, storeVars,
                   clicks, file0, open0, snapshot, ret>>
    /\ UNCHANGED <<frame_set, str>>
    /\ UNCHANGED srcVars

\* case R_INIT, lines 733-763: one answer at the prompt.
RPrompt ==
    /\ gpc = "prompt" /\ mode = "R_INIT" /\ stdin # <<>>
    /\ \E in \in {Head(stdin)} :
          LET nx == PromptNext(in, "EXIT")
          IN  /\ declined' = (declined \/ nx.to = "redo")
              /\ stdin' = Discard(stdin, nx.n)
              /\ CASE nx.to = "retry" -> UNCHANGED <<gpc, mode, newEvent, stages>>
                   [] nx.to = "redo" -> ChangeState("R_SLCT") /\ gpc' = "top"
                   [] OTHER -> ChangeState(nx.to) /\ gpc' = "top"
    /\ UNCHANGED <<gui_open, vfov, circPts, ignrPts, sqrPts, localVars, storeVars,
                   clicks, file0, open0, snapshot, ret>>
    /\ UNCHANGED <<frame_set, str>>
    /\ UNCHANGED srcVars

\* case R_SLCT, lines 766-777: print the menu, enter the input loop.
RSlct ==
    /\ gpc = "top" /\ LoopGuard /\ mode = "R_SLCT"
    /\ gpc' = "slct"
    /\ UNCHANGED <<gui_open, vfov, inputVars, localVars, storeVars, histVars,
                   snapshot, ret>>
    /\ UNCHANGED <<frame_set, str, stdin>>
    /\ UNCHANGED srcVars

\* A faulty variant of MenuChoice: every line selects method 1.
MenuDefault(line) == "R_XY"

\* A faulty variant of MenuChoice: every line leads back to R_INIT.
MenuBack(line) == "R_INIT"

\* The state a menu line selects, lines 781-827: an empty line is method 1;
\* otherwise std::stoi reads the number; a line std::stoi rejects, 4 and every
\* other number are invalid.
MenuChoice(line) ==
    LET in == IF line = <<>> THEN 1
              ELSE IF StoiOK(line) THEN StoiVal(line) ELSE 0 - 1
    IN  IF line # <<>> /\ ~StoiOK(line) THEN "invalid"
        ELSE CASE in = 1 -> "R_XY"
               [] in = 2 -> "R_YZ"
               [] in = 3 -> "R_XZ"
               [] in = 5 -> "R_EXT"
               [] OTHER -> "invalid"

\* case R_SLCT, lines 779-829: one line at the menu.
RSlctLine ==
    /\ gpc = "slct" /\ mode = "R_SLCT"
    /\ \E line \in MenuLines :
          /\ str' = line
          /\ IF MenuChoice(line) = "invalid"
             THEN UNCHANGED <<gpc, mode, newEvent, stages>>
             ELSE ChangeState(MenuChoice(line)) /\ gpc' = "top"
    /\ UNCHANGED <<gui_open, vfov, circPts, ignrPts, sqrPts, localVars, storeVars,
                   clicks, file0, open0, declined, snapshot, ret>>
    /\ UNCHANGED <<frame_set, stdin>>
    /\ UNCHANGED srcVars

\* ConfigGui::updateC2ATransform, lines 321-336: on a new event run the
\* solver; solved is its return value.  A failed solve leaves R and t alone.
UpdateC2ATransform(plane, solved) ==
    IF newEvent
    THEN /\ newEvent' = FALSE
         /\ IF solved
            THEN /\ R' = Solved(plane, sqrPts, R)
                 /\ t' = SolvedT(plane, sqrPts)
            ELSE UNCHANGED <<R, t>>
    ELSE UNCHANGED <<newEvent, R, t>>

\* case R_XY / R_YZ / R_XZ, lines 832-853 (and 881-902, 930-951): with 4
\* corners update the transform, draw, enter waitKey.
SqrDraw ==
    /\ gpc = "top" /\ LoopGuard /\ mode \in SqrStages
    /\ IF Len(sqrPts) = 4
       THEN \E solved \in BOOLEAN : UpdateC2ATransform(mode, solved)
       ELSE UNCHANGED <<newEvent, R, t>>
    /\ gpc' = "wait"
    /\ UNCHANGED <<gui_open, vfov, mode, circPts, ignrPts, sqrPts, key, fit,
                   cfg_r_src, storeVars, histVars, snapshot, ret>>
    /\ str' = <<>>
    /\ UNCHANGED <<frame_set, stdin>>
    /\ UNCHANGED srcVars

\* The config key of a square stage, lines 263-274.
SqrType(m) ==
    CASE m = "R_XY" -> "c2a_cnrs_xy"
      [] m = "R_YZ" -> "c2a_cnrs_yz"
      [] m = "R_XZ" -> "c2a_cnrs_xz"

\* ConfigGui::saveC2ATransform, lines 261-316: the store after the four adds.
SaveC2AStore(c, m, pts, rot, trans) ==
    LET c1 == CfgAdd(c, SqrType(m), DumpPts(pts))
        c2 == CfgAdd(c1, "c2a_src", SqrType(m))
        c3 == CfgAdd(c2, "c2a_r", MatrixToOmega(rot))
    IN  CfgAdd(c3, "c2a_t", trans)

\* R.col(2) *= -1: the mirrored matrix is no solved pose until the solver has
\* run again from it.
Mirror(m) == [m EXCEPT !.flip = ~m.flip, !.src = "mirror"]

\* case R_XY / R_YZ / R_XZ, lines 854-878 (and 903-927, 952-976).
SqrKey ==
    /\ gpc = "wait" /\ mode \in SqrStages
    /\ gpc' = "top"
    /\ \E k \in Keys(mode) :
          /\ key' = k
          /\ CASE k = "enter" /\ Len(sqrPts) = 4 /\ R # Empty ->
                    /\ cfg' = SaveC2AStore(cfg, mode, sqrPts, R, t)
                    /\ \E ok \in BOOLEAN : CfgWrite(ok)
                    /\ ChangeState("EXIT")
                    /\ UNCHANGED R
               [] k = "f" /\ R # Empty ->
                    /\ R' = Mirror(R)
                    /\ newEvent' = TRUE
                    /\ UNCHANGED <<gui_open, mode, stages, storeVars>>
               [] OTHER ->
                    UNCHANGED <<gui_open, mode, newEvent, stages, storeVars, R>>
    /\ UNCHANGED <<vfov, circPts, ignrPts, sqrPts, fit, t, cfg_r_src, clicks,
                   file0, open0, declined, snapshot, ret>>
    /\ UNCHANGED <<frame_set, str, stdin>>
    /\ UNCHANGED srcVars

\* A faulty variant of RExt: c2a_r is set to zero whether the store holds it
\* or not.
RExtOverwrite ==
    /\ gpc = "top" /\ LoopGuard /\ mode = "R_EXT"
    /\ cfg' = CfgAdd(CfgAdd(cfg, "c2a_r", ZeroVec), "c2a_src", "ext")
    /\ \E ok \in BOOLEAN : CfgWrite(ok)
    /\ ChangeState("EXIT")
    /\ UNCHANGED <<gpc, vfov, circPts, ignrPts, sqrPts, localVars, clicks,
                   file0, open0, declined, snapshot, ret>>
    /\ str' = <<>>
    /\ UNCHANGED <<frame_set, stdin>>
    /\ UNCHANGED srcVars

\* case R_EXT, lines 997-1017.
RExt ==
    /\ gpc = "top" /\ LoopGuard /\ mode = "R_EXT"
    /\ cfg' = LET c1 == IF ~CfgHas(cfg, "c2a_r")
                        THEN CfgAdd(cfg, "c2a_r", ZeroVec)
                        ELSE cfg
              IN  CfgAdd(c1, "c2a_src", "ext")
    /\ \E ok \in BOOLEAN : CfgWrite(ok)
    /\ ChangeState("EXIT")
    /\ UNCHANGED <<gpc, vfov, circPts, ignrPts, sqrPts, localVars, clicks,
                   file0, open0, declined, snapshot, ret>>
    /\ str' = <<>>
    /\ UNCHANGED <<frame_set, stdin>>
    /\ UNCHANGED srcVars

\* case EXIT, lines 1025-1027.
ExitStage ==
    /\ gpc = "top" /\ LoopGuard /\ mode = "EXIT"
    /\ key' = "esc"
    /\ UNCHANGED <<gpc, gui_open, vfov, inputVars, fit, R, t, cfg_r_src, storeVars,
                   stages, clicks, file0, open0, declined, snapshot, ret>>
    /\ UNCHANGED <<frame_set, str, stdin>>
    /\ UNCHANGED srcVars

\* Line 400: the guard fails and the loop is left.
LoopExit ==
    /\ gpc = "top" /\ ~LoopGuard
    /\ gpc' = "exit"
    /\ UNCHANGED <<gui_open, vfov, inputVars, localVars, storeVars, histVars,
                   snapshot, ret>>
    /\ UNCHANGED <<frame_set, str, stdin>>
    /\ UNCHANGED srcVars

\* Lines 1031-1080: draw and write the config image, print the status, return.
\* Line 1034 converts _frame first: cv::cvtColor raises cv::Exception on an
\* empty cv::Mat, nothing in run() catches it, and the rest is not reached.
RunExit ==
    /\ gpc \in {"exit"}
    /\ IF frame_set
       THEN /\ snapshot' = [circle |-> fit.ok,
                            regions |-> ignrPts,
                            axes |-> IF Len(sqrPts) = 4
                                        /\ cfg_r_src \in {"c2a_cnrs_xy", "c2a_cnrs_yz", "c2a_cnrs_xz"}
                                     THEN cfg_r_src ELSE "none",
                            status |-> IF gui_open THEN "complete" ELSE "rerun"]
            /\ ret' = IF gui_open THEN "true" ELSE "false"
       ELSE /\ snapshot' = snapshot
            /\ ret' = "throw"
    /\ gpc' = "done"
    /\ UNCHANGED <<gui_open, vfov, inputVars, localVars, storeVars, histVars>>
    /\ UNCHANGED <<frame_set, str, stdin>>
    /\ UNCHANGED srcVars

-----------------------------------------------------------------------------
(* Specifications *)

\* The session while the frame source runs, and the frame source while the
\* session runs: constructed and idle.
GuiIdle ==
    /\ gpc = "start" /\ gui_open = FALSE /\ vfov = 0 /\ mode = "CIRC_INIT"
    /\ circPts = <<>> /\ ignrPts = <<>> /\ sqrPts = <<>> /\ newEvent = FALSE
    /\ key = "none" /\ fit = NoFit /\ R = Empty /\ t = EmptyT /\ cfg_r_src = ""
    /\ cfg = EmptyCfg /\ disk = EmptyCfg /\ writes = 0 /\ stages = <<>>
    /\ clicks = 0 /\ declined = FALSE /\ file0 = EmptyCfg
    /\ open0 = FALSE /\ failed = FALSE
    /\ snapshot = NoSnapshot /\ ret = "none" /\ frame_set = FALSE /\ str = <<>>
    /\ stdin = <<>>

SrcIdle == CtorStart(<<>>) /\ other = NoOther

SrcNext ==
    \/ TryCamera
    \/ TryVideo
    \/ TryImage
    \/ CtorFinish
    \/ Grab

GuiNext ==
    \/ RunBegin
    \/ LeftClick
    \/ RightClick
    \/ CircInit
    \/ ConsoleLine
    \/ CircPrompt
    \/ CircPtsDraw
    \/ CircPtsKey
    \/ IgnrInit
    \/ IgnrPrompt
    \/ IgnrPtsDraw
    \/ IgnrPtsKey
    \/ RInit
    \/ RPrompt
    \/ RSlct
    \/ RSlctLine
    \/ SqrDraw
    \/ SqrKey
    \/ RExt
    \/ ExitStage
    \/ LoopExit
    \/ RunExit

\* The frame source with its accessors in use; two inputs, one a camera id.
AccInputs == {<<"1">>, <<"a">>}

AccNext ==
    \/ TryCamera
    \/ TryVideo
    \/ TryImage
    \/ CtorFinish
    \/ Grab
    \/ GetFPS
    \/ SetFPS
    \/ SetWH
    \/ Rewind

\* Two frame sources in one process: the first is built from a file name,
\* set to a playback rate and grabbed from, the second is grabbed from.
ProcInput == <<"a">>

ProcNext ==
    \/ TryCamera
    \/ TryVideo
    \/ TryImage
    \/ CtorFinish
    \/ SetFPS
    \/ Grab
    \/ GrabOther

\* The frame source with the layout setter in use.
BayerNext ==
    \/ TryCamera
    \/ TryVideo
    \/ TryImage
    \/ CtorFinish
    \/ SetBayerType
    \/ SetFPS
    \/ SetWH
    \/ Rewind
    \/ Grab

InitSrc == SrcInit /\ GuiIdle
InitGui == GuiInit /\ SrcIdle
InitAcc == (\E in \in AccInputs : CtorStart(in)) /\ other = NoOther /\ GuiIdle
InitProc == CtorStart(ProcInput) /\ other \in OtherSources /\ GuiIdle
InitBayer == CtorStart(ProcInput) /\ other = NoOther /\ GuiIdle

SpecSrc == InitSrc /\ [][SrcNext]_vars

SpecAcc == InitAcc /\ [][AccNext]_vars

SpecProc == InitProc /\ [][ProcNext]_vars

SpecBayer == InitBayer /\ [][BayerNext]_vars

SpecGui == InitGui /\ [][GuiNext]_vars

-----------------------------------------------------------------------------
(* Properties of the frame source *)

SuccessfulTrials == {i \in DOMAIN trials : trials[i].ok}
TrialOrder == <<"camera", "video", "image">>

\* C1: once the constructor is through, at most one trial has succeeded and
\* the source is at most one of camera, video, image; it is closed exactly
\* when all three trials failed; and the live flag is true exactly when the
\* classification is camera.
C1_OneClassification ==
    spc = "ready" =>
        /\ Cardinality(SuccessfulTrials) <= 1
        /\ src_open => ~(src_live /\ is_image)
        /\ \A i \in SuccessfulTrials : Classification = trials[i].kind
        /\ (Classification = "closed") <=> (Len(trials) = 3 /\ SuccessfulTrials = {})
        /\ src_live <=> (Classification = "camera")

\* A source that fell through the camera trial and opened as a video file.
C1_Witness ==
    /\ spc = "ready"
    /\ Classification = "video"
    /\ Len(trials) = 2
    /\ ~src_live

\* A token that is an integer and nothing else: an optional sign, then digits
\* to the end.
IsInteger(s) ==
    LET d == SkipSign(s)
    IN  d # <<>> /\ \A i \in DOMAIN d : d[i] \in Digits

\* C2: the trials run in the order camera, video, image; a trial runs only
\* if all the earlier ones failed; the camera trial succeeds only for a token
\* of at most 2 characters that is an integer and whose test capture is not
\* empty; the first success is the classification.
C2_OrderedTrials ==
    /\ Len(trials) <= 3
    /\ \A i \in DOMAIN trials :
          /\ trials[i].kind = TrialOrder[i]
          /\ trials[i].ok => i = Len(trials)
          /\ (trials[i].kind = "camera" /\ trials[i].ok) =>
                /\ Len(input) <= 2
                /\ IsInteger(input)
                /\ trials[i].frame # EmptyFrame
    /\ spc = "ready" => \A i \in SuccessfulTrials : Classification = trials[i].kind

\* C3: a grab() returns failure exactly when the source is not open or is a
\* streaming source whose read failed; on an open image source every grab()
\* succeeds and no backend read is made.
C3_GrabFailsIff ==
    grabRet # "none" =>
        /\ (grabRet = "false") <=>
              (~src_open \/ (~is_image /\ frame_cap = EmptyFrame))
        /\ (src_open /\ is_image) => (grabRet = "true" /\ reads = 0)

-----------------------------------------------------------------------------
(* Properties of the configuration session *)

\* The coordinates of a point list as they were clicked: x1, y1, ..., xn, yn.
RECURSIVE Flat(_)
Flat(pts) ==
    IF pts = <<>> THEN <<>>
    ELSE <<Head(pts)[1], Head(pts)[2]>> \o Flat(Tail(pts))

AllButLast(s) == IF s = <<>> THEN <<>> ELSE SubSeq(s, 1, Len(s) - 1)

\* The steps in which cv::waitKey returns Enter in a stage.
CircEnter == gpc = "wait" /\ mode = "CIRC_PTS" /\ gpc' = "top" /\ key' = "enter"
IgnrEnter == gpc = "wait" /\ mode = "IGNR_PTS" /\ gpc' = "top" /\ key' = "enter"
SqrEnter == gpc = "wait" /\ mode \in SqrStages /\ gpc' = "top" /\ key' = "enter"
\* The steps of the mouse callback.
LeftClickStep == gpc = "wait" /\ gpc' = "wait" /\ clicks' = clicks + 1
RightClickStep == gpc = "wait" /\ gpc' = "wait" /\ clicks' = clicks

\* C4: Enter in CIRC_PTS with at least 3 points stores roi_circ as the flat
\* integer sequence x1, y1, ..., xn, yn of the clicked points, writes the
\* store and goes to IGNR_INIT; with fewer than 3 points it changes neither
\* the stage, the points nor the store, and the session stays open.
C4_CircCommit ==
    [][CircEnter =>
          IF Len(circPts) >= 3
          THEN /\ cfg' = [cfg EXCEPT !["roi_circ"] = <<Flat(circPts)>>]
               /\ writes' = writes + 1
               /\ mode' = "IGNR_INIT"
          ELSE /\ UNCHANGED <<mode, circPts, cfg, disk, writes>>
               /\ gui_open' = gui_open]_vars

\* C5: in the circumference and square stages a left click appends the
\* clicked point, and a right click leaves all the points but the last in
\* their order; on an empty list a right click leaves it empty.
C5_RightClickPops ==
    [][/\ (LeftClickStep /\ mode = "CIRC_PTS") =>
              \E p \in ClickPts : circPts' = circPts \o <<p>>
       /\ (LeftClickStep /\ mode \in SqrStages) =>
              \E p \in ClickPts : sqrPts' = sqrPts \o <<p>>
       /\ (RightClickStep /\ mode = "CIRC_PTS") => circPts' = AllButLast(circPts)
       /\ (RightClickStep /\ mode \in SqrStages) => sqrPts' = AllButLast(sqrPts)]_vars

\* Three circumference clicks and one right click: two points are left.
C5_Witness ==
    /\ mode = "CIRC_PTS"
    /\ gpc = "wait"
    /\ clicks = 3
    /\ Len(circPts) = 2

\* C6: Enter in IGNR_PTS with a non-empty active polygon appends one empty
\* polygon, leaves the polygons there were as they are, writes nothing to
\* the store and stays in IGNR_PTS.
C6_EnterStartsPolygon ==
    [][(IgnrEnter /\ ignrPts # <<>> /\ ignrPts[Len(ignrPts)] # <<>>) =>
          /\ ignrPts' = ignrPts \o << <<>> >>
          /\ UNCHANGED <<mode, stages, cfg, disk, writes, gui_open>>]_vars

\* Enter has just opened a second polygon behind a clicked one.
C6_Witness ==
    /\ mode = "IGNR_PTS"
    /\ gpc = "top"
    /\ key = "enter"
    /\ Len(ignrPts) = 2
    /\ ignrPts[1] # <<>>
    /\ ignrPts[2] = <<>>

\* C7: Enter in IGNR_PTS with an empty active polygon, or with no polygon,
\* drops that empty polygon and no other, stores the polygons that remain as
\* roi_ignr in their order, writes the store and goes to R_INIT; with no
\* polygon left the stored set is empty.
C7_EnterCommitsPolygons ==
    [][(IgnrEnter /\ (ignrPts = <<>> \/ ignrPts[Len(ignrPts)] = <<>>)) =>
          /\ ignrPts' = AllButLast(ignrPts)
          /\ Len(cfg'["roi_ignr"][1]) = Len(ignrPts')
          /\ \A i \in DOMAIN ignrPts' : cfg'["roi_ignr"][1][i] = DumpPts(ignrPts'[i])
          /\ \A k \in CfgKeys \ {"roi_ignr"} : cfg'[k] = cfg[k]
          /\ writes' = writes + 1
          /\ mode' = "R_INIT"]_vars

\* One clicked polygon was committed: the empty polygon behind it is gone.
C7_Witness ==
    /\ mode = "R_INIT"
    /\ gpc = "top"
    /\ key = "enter"
    /\ Len(stages) >= 2
    /\ stages[Len(stages) - 1] = "IGNR_PTS"
    /\ Len(ignrPts) = 1
    /\ cfg["roi_ignr"] = <<DumpPolys(ignrPts)>>

\* The rotation is the solver's result for the corners now in the list, in
\* the plane of the stage.
ValidSolve == R.src = "solve" /\ R.plane = mode /\ R.pts = sqrPts

\* C8: Enter in a square stage stores the corners, the transform and the
\* method tag and goes to EXIT only with exactly 4 corners and a valid solve
\* for them; otherwise the stage, the corners and the store stay as they are
\* and the session stays open.
C8_SquareCommit ==
    [][SqrEnter =>
          IF mode' # mode \/ cfg' # cfg \/ writes' # writes
          THEN Len(sqrPts) = 4 /\ ValidSolve
          ELSE UNCHANGED <<mode, sqrPts, cfg, disk, writes, gui_open>>]_vars

\* A file with the circumference, the ignore regions and a whole transform.
HoldsAll(f) ==
    /\ \A k \in {"roi_circ", "roi_ignr", "c2a_src", "c2a_r", "c2a_t"} : CfgHas(f, k)
    /\ \E k \in {"c2a_cnrs_xy", "c2a_cnrs_yz", "c2a_cnrs_xz"} : CfgHas(f, k)

\* C9: a session that found such a file, and in which the user never
\* declined, went through CIRC_INIT, IGNR_INIT, R_INIT, EXIT and nothing
\* else, took no click, wrote no store, and left the file as it found it.
C9_KeepEverything ==
    (gpc = "done" /\ ret = "true" /\ HoldsAll(file0) /\ ~declined) =>
        /\ stages = <<"CIRC_INIT", "IGNR_INIT", "R_INIT", "EXIT">>
        /\ clicks = 0
        /\ writes = 0
        /\ disk = file0

\* The steps in which cv::waitKey returns Escape in a point stage, and the
\* states after one.
EscStep == gpc = "wait" /\ mode \in PtsStages /\ key' = "esc"
AfterEsc == key = "esc" /\ mode \in PtsStages

\* C10: Escape in a point stage changes no stage, no point list and no
\* store, and all that follows it is the way out of the loop: the guard
\* fails, run() returns.
C10_EscapeEndsLoop ==
    [][/\ EscStep =>
             /\ gpc' = "top"
             /\ UNCHANGED <<mode, stages, circPts, ignrPts, sqrPts, cfg, disk, writes>>
       /\ AfterEsc =>
             /\ gpc' = IF gpc = "top" THEN "exit" ELSE "done"
             /\ UNCHANGED <<mode, stages, circPts, ignrPts, sqrPts, cfg, disk, writes>>]_vars

\* run() has returned after Escape in a square stage with two corners.
C10_Witness ==
    /\ gpc = "done"
    /\ key = "esc"
    /\ mode \in SqrStages
    /\ Len(sqrPts) = 2

-----------------------------------------------------------------------------
(* Properties of the session: failure, exit and the stage order *)

\* Inside run() _open falls only at a failed _cfg.write(): a session that is
\* not open after a write has had a write fail.
WriteFailed == writes > 0 /\ ~gui_open

\* C11 as stated: after a write failure the session is marked failed, run()
\* returns false, and the loop has kept running the stages until EXIT is the
\* active one.
C11_FailureRunsToExit ==
    (gpc = "done" /\ WriteFailed) => (ret = "false" /\ mode = "EXIT")

\* C11, amended: a write that leaves the file different from the store turns
\* _open off; from a failed write on no stage runs any more: the state entered
\* by the failed commit stays the active one, the store and the file stay as
\* they are, the loop is left and run() returns false.
C11_FailureHalts ==
    [][/\ (writes' > writes /\ disk' # cfg') => ~gui_open'
       /\ (WriteFailed /\ gpc # "done") =>
              /\ gpc' = (IF gpc = "top" THEN "exit" ELSE "done")
              /\ mode' = mode /\ stages' = stages
              /\ cfg' = cfg /\ disk' = disk /\ writes' = writes
              /\ (gpc' = "done" => ret' = "false")]_vars

\* A circle commit failed to write: the session ended in IGNR_INIT.
C11_Witness ==
    /\ gpc = "done" /\ WriteFailed /\ ret = "false"
    /\ mode = "IGNR_INIT" /\ stages[Len(stages)] = "IGNR_INIT"
    /\ disk # cfg

\* C12: every call of run(), whatever its outcome, ends by writing the
\* annotated snapshot and printing a final status before it returns.
C12_AlwaysSnapshotAndStatus ==
    gpc = "done" =>
        /\ snapshot # NoSnapshot
        /\ snapshot.status \in {"complete", "rerun"}
        /\ ret \in {"true", "false"}

\* C13: the points a commit puts into the store read back as the sequence of
\* clicked points, whatever their integer coordinates: circumference points,
\* the polygons of the ignore regions, square corners.
C13_StoreRoundTrip ==
    [][(writes' = writes + 1) =>
          /\ (mode = "CIRC_PTS" => LoadPts(CfgGet(cfg', "roi_circ")) = circPts)
          /\ (mode = "IGNR_PTS" => LoadPolys(CfgGet(cfg', "roi_ignr")) = ignrPts')
          /\ (mode \in SqrStages => LoadPts(CfgGet(cfg', SqrType(mode))) = sqrPts)]_vars

\* The stages in the order of the session; the four method stages share a rank.
Rank(stage) ==
    CASE stage = "CIRC_INIT" -> 1 [] stage = "CIRC_PTS" -> 2
      [] stage = "IGNR_INIT" -> 3 [] stage = "IGNR_PTS" -> 4
      [] stage = "R_INIT" -> 5 [] stage = "R_SLCT" -> 6
      [] stage \in {"R_XY", "R_YZ", "R_XZ", "R_EXT"} -> 7
      [] stage = "EXIT" -> 8

\* C14: one stage is active at any time; every change of stage, and every
\* state changeState enters, is strictly later in the order CIRC_INIT,
\* CIRC_PTS, IGNR_INIT, IGNR_PTS, R_INIT, R_SLCT, a method stage, EXIT;
\* nothing leaves EXIT.
C14_ForwardOnly ==
    [][/\ mode \in Stages /\ mode' \in Stages
       /\ (mode' # mode => (mode # "EXIT" /\ Rank(mode') > Rank(mode)))
       /\ (gpc # "start" /\ stages' # stages) =>
              /\ stages' = Append(stages, mode')
              /\ mode # "EXIT" /\ Rank(mode') > Rank(mode)]_vars

\* A full session: every stage in order, the method stage being R_EXT.
C14_Witness ==
    /\ gpc = "done"
    /\ stages = <<"CIRC_INIT", "CIRC_PTS", "IGNR_INIT", "IGNR_PTS", "R_INIT",
                  "R_SLCT", "R_EXT", "EXIT">>

\* A transform is persisted: c2a_src names one of the three corner lists or
\* is ext, and c2a_r and c2a_t are there.
TransformPersisted(c) ==
    /\ CfgHas(c, "c2a_src")
    /\ CfgGet(c, "c2a_src") \in {"c2a_cnrs_xy", "c2a_cnrs_yz", "c2a_cnrs_xz", "ext"}
    /\ CfgHas(c, "c2a_r") /\ CfgHas(c, "c2a_t")

\* C15: at R_INIT a persisted transform always brings the keep/redo prompt,
\* and keeping it leads to EXIT without passing through R_SLCT.
C15_PersistedIsPrompted ==
    [][/\ (gpc = "top" /\ LoopGuard /\ mode = "R_INIT" /\ TransformPersisted(cfg)) =>
              (gpc' = "prompt" /\ mode' = "R_INIT")
       /\ (gpc = "prompt" /\ mode = "R_INIT" /\ mode' # mode /\ declined' = declined) =>
              mode' = "EXIT"]_vars

\* A valid selection at the method menu: the empty line (the default, method
\* 1), or a line whose leading integer is the number of an offered method.
ValidSelection(line) ==
    line = <<>> \/ (StoiOK(line) /\ StoiVal(line) \in {1, 2, 3, 5})

\* The stage of the method with number n.
MethodStage(n) ==
    CASE n = 1 -> "R_XY" [] n = 2 -> "R_YZ" [] n = 3 -> "R_XZ" [] n = 5 -> "R_EXT"

-----------------------------------------------------------------------------
(* Properties of the accessors *)

\* C16: setWH returns success exactly when the source is open, both
\* requested values are positive, the backend accepted both sets, and the
\* backend afterwards reports the requested width and height; the recorded
\* dimensions then are the requested ones.
C16_SetWHSuccess ==
    call.op = "setWH" =>
        /\ call.ok <=> /\ src_open
                       /\ call.a > 0 /\ call.b > 0
                       /\ call.set1 /\ call.set2
                       /\ call.repA = call.a /\ call.repB = call.b
        /\ call.ok => (width = call.a /\ height = call.b)

\* A call for 640 x 480 succeeded on a source constructed with 320 x 240.
C16_Witness ==
    /\ call.op = "setWH" /\ call.ok /\ src_open
    /\ call.a = 640 /\ call.b = 480 /\ width = 640 /\ height = 480

\* C17: when the backend refuses setFPS(f), f > 0, on an open source, _fps
\* becomes f; grab() paces a non-live source with the _fps it finds; and
\* getFPS() on an open source returns what the backend reports, not _fps.
C17_RejectedRateRetained ==
    [][/\ (call'.op = "setFPS" /\ call' # call /\ src_open /\ call'.a > 0 /\ ~call'.set1) =>
              fps' = call'.a
       /\ (ngrabs' = ngrabs + 1 /\ grabRet' = "true" /\ ~src_live) =>
              pace_fps' = (IF fps > 0 THEN fps ELSE 0)
       /\ (call'.op = "getFPS" /\ src_open) => call'.val = call'.repA]_vars

\* A video source: setFPS(40) was refused (no backend reports 40), a grab was
\* paced at 40, and getFPS() then returned the backend's 25.
C17_Witness ==
    /\ src_open /\ ~src_live /\ ~is_image
    /\ fps = 40 /\ pace_fps = 40 /\ grabRet = "true"
    /\ call.op = "getFPS" /\ call.val = 25

\* C18: rewind() reports failure whenever the source is live, not open, or
\* its backend refuses the seek; it reports success only for a non-live
\* source whose backend performed the seek.
C18_RewindNonLiveOnly ==
    call.op = "rewind" => (call.ok <=> (src_open /\ ~src_live /\ call.set1))

-----------------------------------------------------------------------------
(* Properties of the pacing state *)

\* C21: the pacing state belongs to one frame source: a grab() call on the
\* second frame source leaves the previous timestamp, the smoothed rate and
\* the smoothed sleep duration that the first frame source paced its last
\* grab() with as they are.
C21_PacingPerInstance ==
    [][(ogr' = ogr + 1 /\ pace_fps > 0) => pacing' = pacing]_vars

-----------------------------------------------------------------------------
(* Properties of the session: regions, transform, prompts *)

\* C22 as stated: a right click in IGNR_PTS removes the last point of the
\* active polygon, and no polygon of the list is empty afterwards.
C22_RightClickLeavesNoEmpty ==
    [][(RightClickStep /\ mode = "IGNR_PTS") =>
          /\ \A i \in DOMAIN ignrPts' : ignrPts'[i] # <<>>
          /\ (ignrPts # <<>> /\ ignrPts[Len(ignrPts)] # <<>>) =>
                 Flat(ignrPts'[Len(ignrPts)]) = Flat(AllButLast(ignrPts[Len(ignrPts)]))]_vars

\* C22, amended: a right click in IGNR_PTS removes the last point of the
\* active polygon when it has one, and removes the active polygon when it is
\* empty; it does not do both: a polygon emptied by the click stays in the
\* list, empty.  The polygons before the active one are not touched.
C22_RightClickOneStep ==
    [][(RightClickStep /\ mode = "IGNR_PTS") =>
          ignrPts' =
             IF ignrPts = <<>> THEN <<>>
             ELSE IF ignrPts[Len(ignrPts)] = <<>> THEN AllButLast(ignrPts)
             ELSE [i \in DOMAIN ignrPts |->
                     IF i = Len(ignrPts) THEN AllButLast(ignrPts[i]) ELSE ignrPts[i]]]_vars

\* One left click and one right click in IGNR_PTS: the polygon is there, empty.
C22_Witness ==
    /\ gpc = "wait" /\ mode = "IGNR_PTS" /\ clicks = 1 /\ writes = 0
    /\ ignrPts = <<<<>>>>

\* The square stage this session committed: the state left for EXIT.
CommittedSquare ==
    IF Len(stages) >= 2 /\ stages[Len(stages)] = "EXIT"
       /\ stages[Len(stages) - 1] \in SqrStages
    THEN stages[Len(stages) - 1] ELSE "none"

\* C23: when a square stage was committed in this session, the snapshot has
\* the axes, drawn with the reference corners of the committed plane.
C23_SnapshotAxesOfCommit ==
    (gpc = "done" /\ snapshot # NoSnapshot /\ CommittedSquare # "none") =>
        snapshot.axes = SqrType(CommittedSquare)

\* The store names a transform source but a piece of the transform is
\* missing: the corner list under the name, c2a_r or c2a_t.
StaleTransform(c) ==
    /\ CfgHas(c, "c2a_src")
    /\ \/ ~CfgHas(c, CfgGet(c, "c2a_src"))
       \/ ~CfgHas(c, "c2a_r")
       \/ ~CfgHas(c, "c2a_t")

\* C24: at R_INIT a stale transform sends the session to R_SLCT in the same
\* step: no prompt, no write, the session stays open.
C24_StaleGoesToSelect ==
    [][(gpc = "top" /\ LoopGuard /\ mode = "R_INIT" /\ StaleTransform(cfg)) =>
          /\ mode' = "R_SLCT" /\ gpc' = "top"
          /\ cfg' = cfg /\ disk' = disk /\ writes' = writes
          /\ gui_open' = gui_open /\ declined' = declined]_vars

\* The file had c2a_src, the corners and c2a_r, but no c2a_t: the session
\* reached the menu without a prompt answer and without a write.
C24_Witness ==
    /\ gpc = "slct" /\ mode = "R_SLCT" /\ gui_open /\ writes = 0 /\ ~declined
    /\ CfgHas(file0, "c2a_src") /\ CfgHas(file0, "c2a_r") /\ ~CfgHas(file0, "c2a_t")
    /\ stages = <<"CIRC_INIT", "IGNR_INIT", "R_INIT", "R_SLCT">>

\* The R_EXT step whose write succeeded: the session is still open after it.
RExtCommitted == gpc = "top" /\ LoopGuard /\ mode = "R_EXT" /\ gui_open'

\* C25 as stated: after R_EXT has committed, the store holds the tag ext and
\* both c2a_r and c2a_t, each as it was or zero if it was absent, and the
\* stage is EXIT.
C25_PlaceholderBoth ==
    [][RExtCommitted =>
          /\ cfg'["c2a_src"] = Val("ext")
          /\ cfg'["c2a_r"] = IF CfgHas(cfg, "c2a_r") THEN cfg["c2a_r"] ELSE Val(ZeroVec)
          /\ CfgHas(cfg', "c2a_t")
          /\ mode' = "EXIT"]_vars

\* C25, amended: after R_EXT has committed, the store holds the tag ext and
\* c2a_r, as it was or zero if it was absent; c2a_t and every other key are
\* as they were (c2a_t is not added); the file equals the store and the
\* stage is EXIT.
C25_PlaceholderRotation ==
    [][RExtCommitted =>
          /\ cfg'["c2a_src"] = Val("ext")
          /\ cfg'["c2a_r"] = IF CfgHas(cfg, "c2a_r") THEN cfg["c2a_r"] ELSE Val(ZeroVec)
          /\ \A k \in CfgKeys \ {"c2a_src", "c2a_r"} : cfg'[k] = cfg[k]
          /\ disk' = cfg'
          /\ mode' = "EXIT" /\ gpc' = "top"]_vars

\* R_EXT has committed in a session whose file held no transform: the zero
\* rotation is in the file, and no translation.
C25_Witness ==
    /\ mode = "EXIT" /\ gui_open /\ writes > 0
    /\ Len(stages) >= 2 /\ stages[Len(stages) - 1] = "R_EXT"
    /\ ~CfgHas(file0, "c2a_r")
    /\ disk["c2a_r"] = Val(ZeroVec) /\ disk["c2a_src"] = Val("ext")
    /\ ~CfgHas(disk, "c2a_t")

\* The stage a prompt goes to when the stored value is kept.
KeepStage(stage) ==
    CASE stage = "CIRC_INIT" -> "IGNR_INIT"
      [] stage = "IGNR_INIT" -> "R_INIT"
      [] stage = "R_INIT" -> "EXIT"

\* A keep/redo prompt whose answer has been typed.
Answered == gpc = "prompt" /\ stdin # <<>>

C27_LoopStaysAlive ==
    (vfov <= 0 /\ frame_set /\ gpc = "done") => ret # "false"

\* C27, amended: with vfov <= 0 the session is not open at any time; the
\* loop body never runs, so no stage after CIRC_INIT is entered, nothing is
\* written and the store stays as loaded; run() returns false when _frame
\* holds an image.
C27_InvalidModelCloses ==
    vfov <= 0 =>
        /\ ~gui_open
        /\ gpc \in {"start", "top", "exit", "done"}
        /\ Len(stages) <= 1 /\ mode = "CIRC_INIT"
        /\ writes = 0 /\ cfg = file0 /\ disk = file0
        /\ (gpc = "done" /\ frame_set) => ret = "false"

\* run() has returned false from a session whose only fault was vfov <= 0.
C27_Witness ==
    /\ vfov <= 0 /\ frame_set /\ gpc = "done" /\ ret = "false"
    /\ stages = <<"CIRC_INIT">>

\* A step that calls _cfg.write().
Commits == writes' = writes + 1

\* C28: a commit changes only its own keys.  The circumference commit
\* changes roi_circ alone; the ignore-region commit and the transform commits
\* (a square stage, R_EXT) leave roi_circ as it is, in the store and in the
\* file, whether the write succeeds or fails; the transform commits leave
\* roi_ignr as it is as well.
C28_CommitOwnSlice ==
    [][Commits =>
          /\ mode = "CIRC_PTS" =>
                \A k \in CfgKeys \ {"roi_circ"} : cfg'[k] = cfg[k]
          /\ mode = "IGNR_PTS" =>
                /\ \A k \in CfgKeys \ {"roi_ignr"} : cfg'[k] = cfg[k]
                /\ disk'["roi_circ"] = disk["roi_circ"]
          /\ mode \in SqrStages \cup {"R_EXT"} =>
                /\ cfg'["roi_circ"] = cfg["roi_circ"]
                /\ cfg'["roi_ignr"] = cfg["roi_ignr"]
                /\ disk'["roi_circ"] = disk["roi_circ"]
                /\ disk'["roi_ignr"] = disk["roi_ignr"]]_vars

\* Three commits in one session: the circumference and the ignore regions
\* were written, then the write of R_EXT failed; the file holds the first
\* two and not the method tag.
C28_Witness ==
    /\ writes = 3 /\ ~gui_open /\ mode = "EXIT"
    /\ ~CfgHas(file0, "roi_circ") /\ ~CfgHas(file0, "c2a_src")
    /\ CfgHas(disk, "roi_circ") /\ CfgHas(disk, "roi_ignr")
    /\ disk["roi_circ"] = cfg["roi_circ"]
    /\ CfgHas(cfg, "c2a_src") /\ ~CfgHas(disk, "c2a_src")

\* The circle of a point list: its fit with 3 points or more, none with
\* fewer.
Preview(pts) == IF Len(pts) >= 3 THEN [ok |-> NonDegenerate(pts), pts |-> pts] ELSE NoFit

\* C29: every pass of the loop in CIRC_PTS draws the circle of the point
\* list as it is at that pass, whether the pass re-fits or not.
C29_PreviewIsLive ==
    [][(gpc = "top" /\ LoopGuard /\ mode = "CIRC_PTS") =>
          (gpc' = "wait" /\ circPts' = circPts /\ fit' = Preview(circPts))]_vars

\* The first pass in CIRC_PTS after the stored points, which had a circle,
\* were declined at the prompt: no points and no circle.
C29_Witness ==
    /\ gpc = "wait" /\ mode = "CIRC_PTS" /\ clicks = 0 /\ declined
    /\ stages = <<"CIRC_INIT", "CIRC_PTS">>
    /\ CfgHas(file0, "roi_circ") /\ Len(LoadPts(CfgGet(file0, "roi_circ"))) >= 3
    /\ circPts = <<>> /\ fit = NoFit

\* A step of the mouse callback that changes a point list.
ClickChanges ==
    /\ gpc = "wait" /\ gpc' = "wait"
    /\ (circPts' # circPts \/ ignrPts' # ignrPts \/ sqrPts' # sqrPts)

\* C30: the callback changes a point list only while the loop waits in
\* cv::waitKey, each such change sets newEvent, and newEvent is not cleared
\* before a re-fit has seen the change: whenever newEvent is clear the circle
\* is the one of the circumference points as they are.
C30_NoNotificationLost ==
    /\ [][ClickChanges => newEvent']_vars
    /\ [](~newEvent => fit = Preview(circPts))

-----------------------------------------------------------------------------
(* Properties of the frame source, continued *)

\* A grab() step that returned true.
GrabbedTrue == ngrabs' = ngrabs + 1 /\ grabRet' = "true"

\* C31: a successful grab() that found a single-row frame hands off a frame
\* with as many rows as the height the source has recorded.
C31_ReshapeToHeight ==
    [][(GrabbedTrue /\ cap_rows' = 1) => frame_cap'[1] = height]_vars

\* C32: the conversion a successful grab() applies to a single-channel frame
\* is the one of the layout the caller gave to its last setBayerType call
\* (BAYER_NONE, the initial layout, before the first call).
C32_LayoutOfLastSet ==
    [][GrabbedTrue => Demosaic(1, bayerType) = Demosaic(1, bayer_set)]_vars

\* C33: the last setFPS(f) returned true when the source is open, f > 0 and
\* f is the rate now in force, and false when the source is not open or
\* f <= 0.
C33_SetFPSSignal ==
    call.op = "setFPS" =>
        /\ (src_open /\ call.a > 0 /\ fps = call.a) => call.ok
        /\ (~src_open \/ call.a <= 0) => ~call.ok

-----------------------------------------------------------------------------
(* Properties of the configuration session, continued *)

\* C34: run() has returned true exactly when the session was open when
\* run() started and no write of the store has failed.
C34_ReturnsOpenAndWritten ==
    gpc = "done" => ((ret = "true") <=> (open0 /\ ~failed))

\* Escape in the first stage, before any commit: run() has returned true.
C34_Witness ==
    /\ gpc = "done" /\ ret = "true" /\ key = "esc"
    /\ writes = 0 /\ stages = <<"CIRC_INIT", "CIRC_PTS">> /\ disk = file0

\* C35: declining the stored transform at the R_INIT prompt leaves the four
\* loaded corners and the loaded rotation in place, and so does the choice of
\* a square stage at the menu; the circumference and ignore-region stages are
\* entered with an empty list.
C35_DeclinedCornersKept ==
    [][/\ (gpc = "prompt" /\ mode = "R_INIT" /\ mode' = "R_SLCT") =>
             (sqrPts' = sqrPts /\ Len(sqrPts) = 4 /\ R' = R /\ R # Empty)
       /\ (mode = "R_SLCT" /\ mode' \in SqrStages) =>
             (sqrPts' = sqrPts /\ R' = R)
       /\ (mode # "CIRC_PTS" /\ mode' = "CIRC_PTS") => circPts' = <<>>
       /\ (mode # "IGNR_PTS" /\ mode' = "IGNR_PTS") => ignrPts' = <<>>]_vars

\* The stored XY transform was declined, method 2 chosen, and Enter with no
\* click has committed the stored corners as the YZ corners.
C35_Witness ==
    /\ declined /\ clicks = 0 /\ writes = 1 /\ mode = "EXIT"
    /\ stages = <<"CIRC_INIT", "IGNR_INIT", "R_INIT", "R_SLCT", "R_YZ", "EXIT">>
    /\ file0["c2a_src"] = Val("c2a_cnrs_xy")
    /\ cfg["c2a_src"] = Val("c2a_cnrs_yz")
    /\ cfg["c2a_cnrs_yz"] = file0["c2a_cnrs_xy"]

\* Every polygon of the list has a point, the last one possibly excepted.
OnlyLastEmpty(polys) == \A i \in 1..(Len(polys) - 1) : polys[i] # <<>>

\* No polygon of a stored roi_ignr value is empty.
NoEmptyStored(c) ==
    CfgHas(c, "roi_ignr") =>
        \A i \in DOMAIN CfgGet(c, "roi_ignr") : CfgGet(c, "roi_ignr")[i] # <<>>

\* C36: in IGNR_PTS every polygon but possibly the last has a point, and the
\* roi_ignr in the store and in the file holds no empty polygon.
C36_OnlyActiveEmpty ==
    /\ mode = "IGNR_PTS" => OnlyLastEmpty(ignrPts)
    /\ NoEmptyStored(cfg)
    /\ NoEmptyStored(disk)

\* Two polygons were clicked and committed in this session.
C36_Witness ==
    /\ mode = "R_INIT" /\ gui_open /\ writes >= 1 /\ clicks >= 2
    /\ stages[Len(stages) - 1] = "IGNR_PTS"
    /\ Len(ignrPts) = 2 /\ ignrPts[1] # <<>> /\ ignrPts[2] # <<>>
    /\ disk["roi_ignr"] = Val(DumpPolys(ignrPts))

-----------------------------------------------------------------------------
(* Properties of the frame source, continued: setWH *)

\* A setWH(a, b) step: the record of the call is call'.
SetWHStep == spc = "ready" /\ call'.op = "setWH" /\ ngrabs' = ngrabs

\* C37: setWH(a, b) on an open source with a > 0 and b > 0 whose width set or
\* height set the backend refuses returns false and records a and b as the
\* width and height; on a source that is not open, or with a <= 0 or b <= 0,
\* it leaves width, height and the Bayer layout as they are.
C37_SetWHRecords ==
    [][SetWHStep =>
          /\ (src_open /\ call'.a > 0 /\ call'.b > 0 /\ ~(call'.set1 /\ call'.set2)) =>
                (~call'.ok /\ width' = call'.a /\ height' = call'.b)
          /\ (~src_open \/ call'.a <= 0 \/ call'.b <= 0) =>
                (~call'.ok /\ UNCHANGED <<width, height, bayerType>>)]_vars

\* An image file of 320 columns and 240 rows after setWH(640, 480): the
\* call returned false and the recorded size is 640x480.
C37_Witness ==
    /\ src_open /\ is_image /\ frame_cap = <<240, 320>>
    /\ call.op = "setWH" /\ ~call.ok /\ ~(call.set1 /\ call.set2)
    /\ call.a = 640 /\ call.b = 480 /\ width = 640 /\ height = 480

====
